---- MODULE Spec2Model ----
(***************************************************************************)
(* Model of the fsm-js finite state machine (k.fsm.create, FSM.fire,       *)
(* FSM.execute, FSM.executeOut) as a state machine over the JavaScript     *)
(* call stack.  User code (event handlers, state-change listeners and      *)
(* deferred callbacks) is the environment: a user frame may call execute,  *)
(* executeOut and fire, may throw, may catch an error raised by a call it  *)
(* made, and a handler returns any value of Results.                       *)
(***************************************************************************)
EXTENDS Integers, Sequences, FiniteSets, TLC

VARIABLES
    currentState,             \* FSM._currentState
    currentData,              \* FSM._currentData
    states,                   \* FSM._states: state name -> State
    onStateChangedListeners,  \* FSM._onStateChangedListeners
    toExecute,                \* FSM._toExecute
    toExecuteOut,             \* FSM._toExecuteOut
    timers,                   \* callbacks handed to setTimeout, not yet run
    stack,                    \* the JavaScript call stack, innermost frame last
    exc,                      \* the error being thrown, "none" when there is none
    callbacks,                \* history: one record per callback handed to execute or executeOut
    runLog,                   \* history: the callbacks started so far, in order
    nextFire,                 \* history: number of fire calls made so far
    extensions,               \* the members _build copied from the builder onto the FSM
    builder,                  \* the FSMBuilder handed to the initializer (which may retain it)
    initializerCalls,         \* history: the builder calls the initializer made, in order
    described,                \* the value returned by the last describe call
    script,                   \* history: how far the fire calls follow the README scenario
    lastNotified              \* history: listener -> newState of the last call made to it

\* The variables no step of fire, execute or executeOut touches.
appVars == <<extensions, builder, initializerCalls, described, script>>

vars == <<currentState, currentData, states, onStateChangedListeners, toExecute,
          toExecuteOut, timers, stack, exc, callbacks, runLog, nextFire,
          extensions, builder, initializerCalls, described, script, lastNotified>>

----------------------------------------------------------------------------
(* Bounds of the exploration *)

MaxFires == 2
MaxCallbacks == 2

----------------------------------------------------------------------------
(* JavaScript values *)

Null == "null"
Undefined == "undefined"

StateNames == {"A", "B"}
UndeclaredState == "U"
EventNames == {"e", "f", "toString"}

\* A handler's return value: null, undefined, or an array (a string is an
\* array of its characters as far as .length and [i] go).
NullResult == [tag |-> "null", elems |-> <<>>]
UndefinedResult == [tag |-> "undefined", elems |-> <<>>]
Array(s) == [tag |-> "array", elems |-> s]

\* result[k] for a non-null result: undefined past the end.
Index(result, k) ==
    IF k < Len(result.elems) THEN result.elems[k + 1] ELSE Undefined

\* The values handlers return: every pair carries data of its own, so that the
\* data tells which result it came from.
Results ==
    { NullResult, UndefinedResult, Array(<<>>), Array(<<"B">>),
      Array(<<"A", "d1">>), Array(<<"B", "d2">>), Array(<<UndeclaredState, "d3">>),
      Array(<<"B", "d2", "x">>) }

\* The argument lists fire is called with.
ArgLists ==
    {<<>>} \cup {<<e>> : e \in EventNames}

\* Object.prototype.toString.apply(fsm, innerArgs): the string "[object Object]".
ObjectToString ==
    Array(<<"[", "o", "b", "j", "e", "c", "t", " ", "O", "b", "j", "e", "c", "t", "]">>)

\* The members every plain object inherits that the model's events can name.
ObjectPrototype == {"toString"}

EmptyObject == [k \in {} |-> Null]

Put(obj, key, value) ==
    [k \in DOMAIN obj \cup {key} |-> IF k = key THEN value ELSE obj[k]]

\* JavaScript's  key in obj  for a plain object: own or inherited.
In(key, obj) == key \in DOMAIN obj \/ key \in ObjectPrototype

----------------------------------------------------------------------------
(* StateBuilder, FSMBuilder and create *)

NewStateBuilder(name) == [name |-> name, handlers |-> EmptyObject]

On(sb, eventName, callback) ==
    [sb EXCEPT !.handlers = Put(sb.handlers, eventName, callback)]

\* The one machine a builder builds, as the value of a reference to it.
TheFSM == "fsm"

\* StateBuilder._build(fsm): the State keeps the name, the machine and the
\* handler table of the builder (the table itself, not a copy).
StateBuild(sb, fsm) == [name |-> sb.name, fsm |-> fsm, handlers |-> sb.handlers]

\* attrs: the members the initializer attached to the builder object itself.
NewFSMBuilder ==
    [initialState |-> Null, initialData |-> Null,
     states |-> EmptyObject, onStateChangedListeners |-> <<>>,
     attrs |-> EmptyObject]

\* Member names are sequences of characters, so that charAt(0) can be taken.
\* The fields the FSMBuilder constructor sets:
PrivateFields ==
    { <<"_", "i", "n", "i", "t", "i", "a", "l", "S", "t", "a", "t", "e">>,
      <<"_", "i", "n", "i", "t", "i", "a", "l", "D", "a", "t", "a">>,
      <<"_", "s", "t", "a", "t", "e", "s">>,
      <<"_", "o", "n", "S", "t", "a", "t", "e", "C", "h", "a", "n", "g", "e", "d",
        "L", "i", "s", "t", "e", "n", "e", "r", "s">> }

\* The methods of class FSMBuilder: members of its prototype, not enumerable.
BuilderMethods ==
    { <<"s", "t", "a", "r", "t", "W", "i", "t", "h">>,
      <<"w", "h", "e", "n">>,
      <<"o", "n", "S", "t", "a", "t", "e", "C", "h", "a", "n", "g", "e", "d">>,
      <<"_", "b", "u", "i", "l", "d">> }

\* builder.attr = value, in the initializer.
SetAttr(b, attr, value) == [b EXCEPT !.attrs = Put(b.attrs, attr, value)]

HasOwnProperty(b, attr) == attr \in PrivateFields \cup DOMAIN b.attrs

\* for (let attr in this): the enumerable members, own ones and inherited ones
\* (none is inherited: methods of a class are not enumerable).
ForIn(b) == PrivateFields \cup DOMAIN b.attrs

\* attr.charAt(k): the empty string past the end.
CharAt(attr, k) == IF k < Len(attr) THEN attr[k + 1] ELSE ""

\* Variant of StartWith: the first call wins, later calls are ignored.
StartWithFirstWins(b, initialState, initialData) ==
    IF b.initialState = Null
    THEN [b EXCEPT !.initialState = initialState, !.initialData = initialData]
    ELSE b

\* Variant of CopiedMembers: every own member is copied, the private ones too.
CopiedMembersAll(b) ==
    [attr \in {a \in ForIn(b) : HasOwnProperty(b, a)} |->
        IF attr \in DOMAIN b.attrs THEN b.attrs[attr] ELSE "private"]

\* The loop of _build over the builder's members: fsm[attr] = this[attr].
CopiedMembers(b) ==
    [attr \in {a \in ForIn(b) : HasOwnProperty(b, a) /\ CharAt(a, 0) # "_"} |->
        b.attrs[attr]]

StartWith(b, initialState, initialData) ==
    [b EXCEPT !.initialState = initialState, !.initialData = initialData]

\* A state initializer is the sequence of its on(eventName, callback) calls.
RECURSIVE RunStateInitializer(_, _)
RunStateInitializer(sb, calls) ==
    IF calls = <<>> THEN sb
    ELSE RunStateInitializer(On(sb, calls[1][1], calls[1][2]), Tail(calls))

When(b, stateName, stateInitializer) ==
    [b EXCEPT !.states =
        Put(b.states, stateName,
            RunStateInitializer(NewStateBuilder(stateName), stateInitializer))]

OnStateChanged(b, listener) ==
    [b EXCEPT !.onStateChangedListeners = Append(b.onStateChangedListeners, listener)]

\* FSMBuilder._build: the fields of the built machine.
Build(b) ==
    [currentState |-> b.initialState,
     currentData |-> b.initialData,
     onStateChangedListeners |-> b.onStateChangedListeners,
     states |-> [s \in DOMAIN b.states |-> StateBuild(b.states[s], TheFSM)],
     toExecute |-> <<>>,
     toExecuteOut |-> <<>>,
     extensions |-> CopiedMembers(b)]

\* An initializer is the sequence of the builder calls it makes.
BuilderCall(b, call) ==
    CASE call.op = "startWith" -> StartWith(b, call.name, call.arg)
      [] call.op = "when" -> When(b, call.name, call.arg)
      [] call.op = "onStateChanged" -> OnStateChanged(b, call.name)
      [] call.op = "attach" -> SetAttr(b, call.name, call.arg)

RECURSIVE RunInitializer(_, _)
RunInitializer(b, calls) ==
    IF calls = <<>> THEN b
    ELSE RunInitializer(BuilderCall(b, calls[1]), Tail(calls))

Create(initializer) == Build(RunInitializer(NewFSMBuilder, initializer))

\* The initializers the machines of this model are created with: two states,
\* A (event e) and B (event f), with one or two listeners, started in a
\* declared state, in an undeclared one, or not started at all.
WhenA == [op |-> "when", name |-> "A", arg |-> <<<<"e", "hAe">>>>]
WhenB == [op |-> "when", name |-> "B", arg |-> <<<<"f", "hBf">>>>]
Listen(l) == [op |-> "onStateChanged", name |-> l, arg |-> Null]
Start(s, d) == [op |-> "startWith", name |-> s, arg |-> d]

Initializers ==
    { <<Start("A", "d0"), WhenA, WhenB, Listen("l1"), Listen("l2")>>,
      <<WhenA, WhenB, Listen("l1"), Start(UndeclaredState, "d0")>>,
      <<WhenA, WhenB, Listen("l1")>> }

----------------------------------------------------------------------------
(* Call stack *)

Top == stack[Len(stack)]
Pop(s) == SubSeq(s, 1, Len(s) - 1)
SetTop(s, f) == [s EXCEPT ![Len(s)] = f]

UserKinds == {"handler", "listener", "callback", "timeout"}

\* The frame of a fire call: its locals and its position in the method.
\* History kept with the call: registered, the callbacks its handler and its
\* listeners handed to execute; registeredInDrain, those handed to execute by the
\* callbacks its drain ran; notified, the listener calls it made; ran, the
\* callbacks its drain called; sawError, whether an error was raised during it;
\* known, the number of callbacks handed to the machine before its queue swap
\* (before the call, as long as it has not reached the swap); entry, the state
\* and data at the call; inner, whether a fire call nested in it has committed
\* since it began or, once it has committed itself, since then; queues, the two
\* queues of the machine at the call.
FireFrame(args) ==
    [kind |-> "fire", pc |-> "dispatch", args |-> args,
     oldState |-> currentState, result |-> UndefinedResult,
     i |-> 0, c |-> 0, toExecute |-> <<>>, toExecuteOut |-> <<>>,
     registered |-> <<>>, registeredInDrain |-> <<>>, notified |-> <<>>,
     ran |-> <<>>, sawError |-> FALSE, known |-> Len(callbacks),
     entry |-> <<currentState, currentData>>, inner |-> FALSE,
     queues |-> <<toExecute, toExecuteOut>>]

\* The frame of a user function: fn its name (handlers and listeners), cb the
\* number of the callback (deferred callbacks).
UserFrame(kind, fn, cb, args) ==
    [kind |-> kind, fn |-> fn, cb |-> cb, args |-> args]

\* The frame of handler.apply(fsm, innerArgs): this is the machine.
HandlerFrame(handler, this, innerArgs) ==
    [kind |-> "handler", fn |-> handler, cb |-> 0, args |-> innerArgs, this |-> this]

Running == exc = "none"
InUserCode == stack # <<>> /\ Top.kind \in UserKinds
AtFire(pc) == stack # <<>> /\ Top.kind = "fire" /\ Top.pc = pc

\* Variant of Unwind: a fire call keeps an error raised by what it called and
\* goes on with its loop.
UnwindStopsAtFire(s) == s

\* No frame of the library catches: an error passes through every fire frame
\* it reaches, up to the user frame that made the call (or out of the stack).
RECURSIVE Unwind(_)
Unwind(s) ==
    IF s # <<>> /\ s[Len(s)].kind = "fire" THEN Unwind(Pop(s)) ELSE s

\* throw: the frame that throws is left at once.
Throw(error) ==
    /\ stack' = Unwind(Pop(stack))
    /\ exc' = error

\* History: the fire calls made so far are the first k of the README scenario
\* (on), or are not (on false, k 0).  Only the producer/consumer machine follows it.
NoScript == [on |-> FALSE, k |-> 0]

----------------------------------------------------------------------------
(* The machine after k.fsm.create(initializer) *)

Init ==
    \E initializer \in Initializers :
        LET fsm == Create(initializer) IN
        /\ currentState = fsm.currentState
        /\ currentData = fsm.currentData
        /\ states = fsm.states
        /\ onStateChangedListeners = fsm.onStateChangedListeners
        /\ toExecute = fsm.toExecute
        /\ toExecuteOut = fsm.toExecuteOut
        /\ timers = {}
        /\ stack = <<>>
        /\ exc = "none"
        /\ callbacks = <<>>
        /\ runLog = <<>>
        /\ nextFire = 0
        /\ extensions = fsm.extensions
        /\ builder = RunInitializer(NewFSMBuilder, initializer)
        /\ initializerCalls = initializer
        /\ described = <<>>
        /\ script = NoScript
        /\ lastNotified = EmptyObject

----------------------------------------------------------------------------
(* FSM.fire, one step per statement that user code can observe *)

\* fsm.fire(args...), called by the application, by a timer task or by user
\* code running inside the machine; oldState is read on entry.
FireCall(args) ==
    /\ Running
    /\ stack = <<>> \/ InUserCode
    /\ nextFire < MaxFires
    /\ nextFire' = nextFire + 1
    /\ stack' = Append(stack, FireFrame(args))
    /\ UNCHANGED appVars
    /\ UNCHANGED <<currentState, currentData, states, onStateChangedListeners,
                   toExecute, toExecuteOut, timers, exc, callbacks, runLog>>
    /\ UNCHANGED lastNotified

\* this._states[name] has a fire method: only a declared State does (a member
\* inherited from Object.prototype has none, so calling it is a TypeError too).
HasState(name) == name \in DOMAIN states

\* Variant of StateFire: the length of args is not checked, so that the event
\* name of a call without arguments is undefined.
StateFireUnchecked(state, args, data) ==
    LET eventName == IF Len(args) < 1 THEN Undefined ELSE args[1] IN
    IF eventName \in DOMAIN state.handlers
    THEN /\ stack' = Append(SetTop(stack, [Top EXCEPT !.pc = "handler"]),
                            HandlerFrame(state.handlers[eventName], state.fsm,
                                         <<data>> \o Tail(args)))
         /\ exc' = exc
    ELSE Throw("UnknownEvent")

\* Variant of StateFire: the handler is called with the extra arguments only.
StateFireDropsData(state, args, data) ==
    IF Len(args) < 1
    THEN Throw("InvalidInvocation")
    ELSE IF In(args[1], state.handlers)
    THEN IF args[1] \in DOMAIN state.handlers
         THEN /\ stack' = Append(SetTop(stack, [Top EXCEPT !.pc = "handler"]),
                                 HandlerFrame(state.handlers[args[1]], state.fsm,
                                              Tail(args)))
              /\ exc' = exc
         ELSE /\ stack' = SetTop(stack, [Top EXCEPT !.pc = "validate",
                                                    !.result = ObjectToString])
              /\ exc' = exc
    ELSE Throw("UnknownEvent")

\* State.fire(args, currentData), called from the fire frame on top of the stack.
StateFire(state, args, data) ==
    IF Len(args) < 1
    THEN Throw("InvalidInvocation")
    ELSE IF In(args[1], state.handlers)
    THEN IF args[1] \in DOMAIN state.handlers
         THEN /\ stack' = Append(SetTop(stack, [Top EXCEPT !.pc = "handler"]),
                                 HandlerFrame(state.handlers[args[1]], state.fsm,
                                              <<data>> \o Tail(args)))
              /\ exc' = exc
         ELSE /\ stack' = SetTop(stack, [Top EXCEPT !.pc = "validate",
                                                    !.result = ObjectToString])
              /\ exc' = exc
    ELSE Throw("UnknownEvent")

\* Variant of Dispatch: a current state without a State is skipped silently
\* (the call goes on to its drain) instead of raising an error.
DispatchSkipsUnknownState ==
    /\ Running
    /\ AtFire("dispatch")
    /\ IF HasState(currentState)
       THEN StateFire(states[currentState], Top.args, currentData)
       ELSE /\ stack' = SetTop(stack, [Top EXCEPT !.pc = "swap"])
            /\ exc' = exc
    /\ UNCHANGED appVars
    /\ UNCHANGED <<currentState, currentData, states, onStateChangedListeners,
                   toExecute, toExecuteOut, timers, callbacks, runLog, nextFire>>
    /\ UNCHANGED lastNotified

\* const result = this._states[this._currentState].fire(arguments, this._currentData)
Dispatch ==
    /\ Running
    /\ AtFire("dispatch")
    /\ IF HasState(currentState)
       THEN StateFire(states[currentState], Top.args, currentData)
       ELSE Throw("UnknownState")
    /\ UNCHANGED appVars
    /\ UNCHANGED <<currentState, currentData, states, onStateChangedListeners,
                   toExecute, toExecuteOut, timers, callbacks, runLog, nextFire>>
    /\ UNCHANGED lastNotified

\* The handler returns: its value becomes result in the fire frame below.
HandlerReturn(result) ==
    /\ Running
    /\ InUserCode
    /\ Top.kind = "handler"
    /\ stack' = SetTop(Pop(stack),
                       [stack[Len(stack) - 1] EXCEPT !.pc = "validate", !.result = result])
    /\ UNCHANGED appVars
    /\ UNCHANGED <<currentState, currentData, states, onStateChangedListeners,
                   toExecute, toExecuteOut, timers, exc, callbacks, runLog, nextFire>>
    /\ UNCHANGED lastNotified

\* Variant of Malformed: the length test is off by one (result.length < 1).
MalformedOffByOne(result) ==
    result.tag \in {"null", "undefined"} \/ Len(result.elems) < 1

\* result == null || result.length < 2
Malformed(result) ==
    result.tag \in {"null", "undefined"} \/ Len(result.elems) < 2

\* Variant of Commit: a result naming an undeclared state is not committed.
CommitDeclaredOnly(result) ==
    IF Index(result, 0) \in DOMAIN states
    THEN /\ currentState' = Index(result, 0)
         /\ currentData' = Index(result, 1)
    ELSE UNCHANGED <<currentState, currentData>>

\* Variant of Commit: the state is replaced and the data is left as it was.
CommitStateOnly(result) ==
    /\ currentState' = Index(result, 0)
    /\ currentData' = currentData

\* Variant of Commit: the two elements of the result are taken in the wrong order.
CommitSwapped(result) ==
    /\ currentState' = Index(result, 1)
    /\ currentData' = Index(result, 0)

\* this._currentState = result[0]; this._currentData = result[1]
Commit(result) ==
    /\ currentState' = Index(result, 0)
    /\ currentData' = Index(result, 1)

\* History: the fire calls the committing one is nested in note the commit.
NoteCommit(s) ==
    [k \in 1..Len(s) |->
        IF k < Len(s) /\ s[k].kind = "fire" THEN [s[k] EXCEPT !.inner = TRUE] ELSE s[k]]

\* Variant of Validate: the result is assigned before it is checked, so that a
\* short array is committed and then rejected.
ValidateAfterCommit ==
    /\ Running
    /\ AtFire("validate")
    /\ IF Malformed(Top.result)
       THEN /\ Throw("MalformedTransition")
            /\ IF Top.result.tag = "array"
               THEN Commit(Top.result)
               ELSE UNCHANGED <<currentState, currentData>>
       ELSE /\ Commit(Top.result)
            /\ stack' = NoteCommit(SetTop(stack,
                  [Top EXCEPT !.pc = IF Top.oldState # currentState'
                                     THEN "notify" ELSE "swap",
                              !.i = 0,
                              !.c = Len(onStateChangedListeners),
                              !.inner = FALSE]))
            /\ exc' = exc
    /\ UNCHANGED appVars
    /\ UNCHANGED <<states, onStateChangedListeners, toExecute, toExecuteOut,
                   timers, callbacks, runLog, nextFire>>
    /\ UNCHANGED lastNotified

\* The check of the handler's result, the commit and the test oldState != currentState.
Validate ==
    /\ Running
    /\ AtFire("validate")
    /\ IF Malformed(Top.result)
       THEN /\ Throw("MalformedTransition")
            /\ UNCHANGED <<currentState, currentData>>
       ELSE /\ Commit(Top.result)
            /\ stack' = NoteCommit(SetTop(stack,
                  [Top EXCEPT !.pc = IF Top.oldState # currentState'
                                     THEN "notify" ELSE "swap",
                              !.i = 0,
                              !.c = Len(onStateChangedListeners),
                              !.inner = FALSE]))
            /\ exc' = exc
    /\ UNCHANGED appVars
    /\ UNCHANGED <<states, onStateChangedListeners, toExecute, toExecuteOut,
                   timers, callbacks, runLog, nextFire>>
    /\ UNCHANGED lastNotified

\* this._onStateChangedListeners[i](oldState, this._currentState)
Notify ==
    /\ Running
    /\ AtFire("notify")
    /\ IF Top.i < Top.c
       THEN stack' = Append(SetTop(stack,
                                   [Top EXCEPT !.i = Top.i + 1,
                                               !.notified = Append(@,
                                                   <<onStateChangedListeners[Top.i + 1],
                                                     Top.oldState, currentState>>)]),
                            UserFrame("listener", onStateChangedListeners[Top.i + 1], 0,
                                      <<Top.oldState, currentState>>))
       ELSE stack' = SetTop(stack, [Top EXCEPT !.pc = "swap"])
    /\ lastNotified' = IF Top.i < Top.c
                       THEN Put(lastNotified, onStateChangedListeners[Top.i + 1], currentState)
                       ELSE lastNotified
    /\ UNCHANGED appVars
    /\ UNCHANGED <<currentState, currentData, states, onStateChangedListeners,
                   toExecute, toExecuteOut, timers, exc, callbacks, runLog, nextFire>>

\* Variant of Swap: the queue of execute is read but not replaced by an empty one.
SwapKeepsQueue ==
    /\ Running
    /\ AtFire("swap")
    /\ stack' = SetTop(stack, [Top EXCEPT !.pc = "drain", !.i = 0,
                                          !.c = Len(toExecute),
                                          !.toExecute = toExecute,
                                          !.toExecuteOut = toExecuteOut,
                                          !.known = Len(callbacks)])
    /\ toExecuteOut' = <<>>
    /\ UNCHANGED appVars
    /\ UNCHANGED <<currentState, currentData, states, onStateChangedListeners,
                   toExecute, timers, exc, callbacks, runLog, nextFire>>
    /\ UNCHANGED lastNotified

\* The two queues are moved to locals and replaced by empty ones.
Swap ==
    /\ Running
    /\ AtFire("swap")
    /\ stack' = SetTop(stack, [Top EXCEPT !.pc = "drain", !.i = 0,
                                          !.c = Len(toExecute),
                                          !.toExecute = toExecute,
                                          !.toExecuteOut = toExecuteOut,
                                          !.known = Len(callbacks)])
    /\ toExecute' = <<>>
    /\ toExecuteOut' = <<>>
    /\ UNCHANGED appVars
    /\ UNCHANGED <<currentState, currentData, states, onStateChangedListeners,
                   timers, exc, callbacks, runLog, nextFire>>
    /\ UNCHANGED lastNotified

\* Variant of Drain: the loop goes on with the callbacks handed to execute
\* since the swap, as if it read the queue of the machine and its length anew.
DrainLiveQueue ==
    /\ Running
    /\ AtFire("drain")
    /\ Top.i < Top.c + Len(toExecute)
    /\ LET n == (Top.toExecute \o toExecute)[Top.i + 1] IN
        /\ stack' = Append(SetTop(stack, [Top EXCEPT !.i = Top.i + 1,
                                                     !.ran = Append(@, n)]),
                           UserFrame("callback", "", n, <<>>))
        /\ runLog' = Append(runLog, n)
    /\ UNCHANGED appVars
    /\ UNCHANGED <<currentState, currentData, states, onStateChangedListeners,
                   toExecute, toExecuteOut, timers, exc, callbacks, nextFire>>
    /\ UNCHANGED lastNotified

\* toExecute[i]()
Drain ==
    /\ Running
    /\ AtFire("drain")
    /\ Top.i < Top.c
    /\ stack' = Append(SetTop(stack, [Top EXCEPT !.i = Top.i + 1,
                                                 !.ran = Append(@, Top.toExecute[Top.i + 1])]),
                       UserFrame("callback", "", Top.toExecute[Top.i + 1], <<>>))
    /\ runLog' = Append(runLog, Top.toExecute[Top.i + 1])
    /\ UNCHANGED appVars
    /\ UNCHANGED <<currentState, currentData, states, onStateChangedListeners,
                   toExecute, toExecuteOut, timers, exc, callbacks, nextFire>>
    /\ UNCHANGED lastNotified

\* Variant of Schedule: the first callback is called at once, toExecuteOut[0](),
\* instead of being handed to setTimeout.
ScheduleCallsFirst ==
    /\ Running
    /\ AtFire("drain")
    /\ Top.i = Top.c
    /\ IF Top.toExecuteOut = <<>>
       THEN /\ stack' = SetTop(stack, [Top EXCEPT !.pc = "return"])
            /\ UNCHANGED <<timers, runLog>>
       ELSE /\ stack' = Append(SetTop(stack, [Top EXCEPT !.pc = "return"]),
                               UserFrame("callback", "", Top.toExecuteOut[1], <<>>))
            /\ runLog' = Append(runLog, Top.toExecuteOut[1])
            /\ timers' = timers \cup {Top.toExecuteOut[j] : j \in 2..Len(Top.toExecuteOut)}
    /\ UNCHANGED appVars
    /\ UNCHANGED <<currentState, currentData, states, onStateChangedListeners,
                   toExecute, toExecuteOut, exc, callbacks, nextFire>>
    /\ UNCHANGED lastNotified

\* setTimeout(toExecuteOut[i], 0) for every i: each callback becomes a timer task.
Schedule ==
    /\ Running
    /\ AtFire("drain")
    /\ Top.i = Top.c
    /\ timers' = timers \cup {Top.toExecuteOut[j] : j \in 1..Len(Top.toExecuteOut)}
    /\ stack' = SetTop(stack, [Top EXCEPT !.pc = "return"])
    /\ UNCHANGED appVars
    /\ UNCHANGED <<currentState, currentData, states, onStateChangedListeners,
                   toExecute, toExecuteOut, exc, callbacks, runLog, nextFire>>
    /\ UNCHANGED lastNotified

\* return this
Return ==
    /\ Running
    /\ AtFire("return")
    /\ stack' = Pop(stack)
    /\ UNCHANGED appVars
    /\ UNCHANGED <<currentState, currentData, states, onStateChangedListeners,
                   toExecute, toExecuteOut, timers, exc, callbacks, runLog, nextFire>>
    /\ UNCHANGED lastNotified

----------------------------------------------------------------------------
(* FSM.execute and FSM.executeOut, called by user code *)

\* History: the method the callback was handed to, and whether a fire call was
\* in progress then.
Registration(queue) ==
    [queue |-> queue,
     inFire |-> \E k \in 1..Len(stack) : stack[k].kind = "fire"]

\* History: the fire call whose handler, listener or deferred callback is
\* running notes the callback n that this user code hands to execute.
NoteRegistration(n) ==
    IF Top.kind = "timeout"
    THEN stack
    ELSE [stack EXCEPT ![Len(stack) - 1] =
            IF Top.kind = "callback"
            THEN [@ EXCEPT !.registeredInDrain = Append(@, n)]
            ELSE [@ EXCEPT !.registered = Append(@, n)]]

\* this.execute(callback), for a callback that is not one of the first limit
\* ones handed to the machine.
ExecuteUpTo(limit) ==
    /\ Running
    /\ InUserCode
    /\ Len(callbacks) < limit
    /\ toExecute' = Append(toExecute, Len(callbacks) + 1)
    /\ callbacks' = Append(callbacks, Registration("execute"))
    /\ stack' = NoteRegistration(Len(callbacks) + 1)
    /\ UNCHANGED appVars
    /\ UNCHANGED <<currentState, currentData, states, onStateChangedListeners,
                   toExecuteOut, timers, exc, runLog, nextFire>>
    /\ UNCHANGED lastNotified

\* Variant of Execute: the callback is called at once as well as queued.
ExecuteCallsNow ==
    /\ Running
    /\ InUserCode
    /\ Len(callbacks) < MaxCallbacks
    /\ toExecute' = Append(toExecute, Len(callbacks) + 1)
    /\ callbacks' = Append(callbacks, Registration("execute"))
    /\ stack' = Append(NoteRegistration(Len(callbacks) + 1),
                       UserFrame("callback", "", Len(callbacks) + 1, <<>>))
    /\ runLog' = Append(runLog, Len(callbacks) + 1)
    /\ UNCHANGED appVars
    /\ UNCHANGED <<currentState, currentData, states, onStateChangedListeners,
                   toExecuteOut, timers, exc, nextFire>>
    /\ UNCHANGED lastNotified

Execute == ExecuteUpTo(MaxCallbacks)

\* this.execute(callback) made by that very callback while the drain runs it
\* (at most once per run: not while it is pending already).
Reexecute ==
    /\ Running
    /\ InUserCode
    /\ Top.kind = "callback"
    /\ \A k \in 1..Len(toExecute) : toExecute[k] # Top.cb
    /\ toExecute' = Append(toExecute, Top.cb)
    /\ stack' = NoteRegistration(Top.cb)
    /\ UNCHANGED appVars
    /\ UNCHANGED <<currentState, currentData, states, onStateChangedListeners,
                   toExecuteOut, timers, exc, callbacks, runLog, nextFire>>
    /\ UNCHANGED lastNotified

ExecuteOut ==
    /\ Running
    /\ InUserCode
    /\ Len(callbacks) < MaxCallbacks
    /\ toExecuteOut' = Append(toExecuteOut, Len(callbacks) + 1)
    /\ callbacks' = Append(callbacks, Registration("executeOut"))
    /\ UNCHANGED appVars
    /\ UNCHANGED <<currentState, currentData, states, onStateChangedListeners,
                   toExecute, timers, stack, exc, runLog, nextFire>>
    /\ UNCHANGED lastNotified

----------------------------------------------------------------------------
(* User code other than handlers' return values, and the host *)

\* A listener, a deferred callback or a timer task returns.
UserReturn ==
    /\ Running
    /\ InUserCode
    /\ Top.kind # "handler"
    /\ stack' = Pop(stack)
    /\ UNCHANGED appVars
    /\ UNCHANGED <<currentState, currentData, states, onStateChangedListeners,
                   toExecute, toExecuteOut, timers, exc, callbacks, runLog, nextFire>>
    /\ UNCHANGED lastNotified

\* User code throws an error of its own.
UserThrow ==
    /\ Running
    /\ InUserCode
    /\ Throw("UserError")
    /\ UNCHANGED appVars
    /\ UNCHANGED <<currentState, currentData, states, onStateChangedListeners,
                   toExecute, toExecuteOut, timers, callbacks, runLog, nextFire>>
    /\ UNCHANGED lastNotified

\* User code that made the failing call does not catch: the error leaves it too.
Propagate ==
    /\ ~Running
    /\ stack # <<>>
    /\ stack' = Unwind(Pop(stack))
    /\ UNCHANGED appVars
    /\ UNCHANGED <<currentState, currentData, states, onStateChangedListeners,
                   toExecute, toExecuteOut, timers, exc, callbacks, runLog, nextFire>>
    /\ UNCHANGED lastNotified

\* User code that called fire inside try/catch goes on after the error; every fire
\* call still on the stack has then had an error raised during it.
Catch ==
    /\ ~Running
    /\ InUserCode
    /\ exc' = "none"
    /\ stack' = [k \in 1..Len(stack) |->
                    IF stack[k].kind = "fire"
                    THEN [stack[k] EXCEPT !.sawError = TRUE] ELSE stack[k]]
    /\ UNCHANGED appVars
    /\ UNCHANGED <<currentState, currentData, states, onStateChangedListeners,
                   toExecute, toExecuteOut, timers, callbacks, runLog, nextFire>>
    /\ UNCHANGED lastNotified

\* The error reaches the application (or the host, for a timer task).
Uncaught ==
    /\ ~Running
    /\ stack = <<>>
    /\ exc' = "none"
    /\ UNCHANGED appVars
    /\ UNCHANGED <<currentState, currentData, states, onStateChangedListeners,
                   toExecute, toExecuteOut, timers, stack, callbacks, runLog, nextFire>>
    /\ UNCHANGED lastNotified

\* The host runs a timer task: only when the call stack is empty, in any order.
TimerRun(n) ==
    /\ Running
    /\ stack = <<>>
    /\ n \in timers
    /\ timers' = timers \ {n}
    /\ stack' = <<UserFrame("timeout", "", n, <<>>)>>
    /\ runLog' = Append(runLog, n)
    /\ UNCHANGED appVars
    /\ UNCHANGED <<currentState, currentData, states, onStateChangedListeners,
                   toExecute, toExecuteOut, exc, callbacks, nextFire>>
    /\ UNCHANGED lastNotified

----------------------------------------------------------------------------
(* FSM.describe *)

\* The values of the stringify parameter.
StringifyFlags == {"undefined", "true", "false"}

\* Variant of StateDescribe: the inherited members of the handler table are
\* listed too (no hasOwnProperty test).
StateDescribeInherited(state) ==
    [name |-> state.name, handlers |-> DOMAIN state.handlers \cup ObjectPrototype]

\* State.describe: the name and the own keys of the handler table.
StateDescribe(state) == [name |-> state.name, handlers |-> DOMAIN state.handlers]

\* The object describe builds (the order of its states list is not modelled).
Descriptor ==
    [state |-> currentState,
     data |-> currentData,
     listeners |-> Len(onStateChangedListeners),
     states |-> {StateDescribe(states[s]) : s \in DOMAIN states}]

\* JSON.stringify(result, null, ' '): a member whose value is undefined is left out.
JSONStringify(result) ==
    [text |-> IF result.data = Undefined
              THEN [state |-> result.state, listeners |-> result.listeners,
                    states |-> result.states]
              ELSE result]

\* Object.freeze(result)
Freeze(result) == [frozen |-> result]

\* describe(stringify): the text when stringify is missing or true, else the
\* frozen object.
Describe(stringify) ==
    IF stringify \in {"undefined", "true"}
    THEN JSONStringify(Descriptor)
    ELSE Freeze(Descriptor)

\* Variant of DescribeCall: describing empties the queue of execute.
DescribeCallClearsQueue(stringify) ==
    /\ Running
    /\ stack = <<>> \/ InUserCode
    /\ described' = <<Describe(stringify)>>
    /\ toExecute' = <<>>
    /\ UNCHANGED <<currentState, currentData, states, onStateChangedListeners,
                   toExecuteOut, timers, stack, exc, callbacks, runLog, nextFire,
                   extensions, builder, initializerCalls, script>>
    /\ UNCHANGED lastNotified

\* fsm.describe(stringify), called by the application or by user code.
DescribeCall(stringify) ==
    /\ Running
    /\ stack = <<>> \/ InUserCode
    /\ described' = <<Describe(stringify)>>
    /\ UNCHANGED <<currentState, currentData, states, onStateChangedListeners,
                   toExecute, toExecuteOut, timers, stack, exc, callbacks, runLog,
                   nextFire, extensions, builder, initializerCalls, script>>
    /\ UNCHANGED lastNotified

----------------------------------------------------------------------------
(* Calls made after create has returned, through the builder the initializer
   retained and through the StateBuilders its state initializers retained *)

MaxListeners == 3

LateListeners == {"l3"}
LateStates == {"C"}
LateEvents == {"g"}

\* builder.onStateChanged(listener): the push goes to the array the FSM
\* constructor was given, which the machine still uses.
LateOnStateChanged(listener) ==
    /\ Running
    /\ stack = <<>>
    /\ Len(builder.onStateChangedListeners) < MaxListeners
    /\ builder' = OnStateChanged(builder, listener)
    /\ onStateChangedListeners' = builder'.onStateChangedListeners
    /\ UNCHANGED <<currentState, currentData, states, toExecute, toExecuteOut,
                   timers, stack, exc, callbacks, runLog, nextFire, extensions,
                   initializerCalls, described, script>>
    /\ UNCHANGED lastNotified

\* stateBuilder.on(eventName, callback) on the StateBuilder of a built state:
\* its handler table is the one the State was given.
LateOn(stateName, eventName, callback) ==
    /\ Running
    /\ stack = <<>>
    /\ stateName \in DOMAIN states
    /\ eventName \notin DOMAIN states[stateName].handlers
    /\ builder' = [builder EXCEPT !.states[stateName] = On(@, eventName, callback)]
    /\ states' = [states EXCEPT ![stateName].handlers =
                                    builder'.states[stateName].handlers]
    /\ UNCHANGED <<currentState, currentData, onStateChangedListeners, toExecute,
                   toExecuteOut, timers, stack, exc, callbacks, runLog, nextFire,
                   extensions, initializerCalls, described, script>>
    /\ UNCHANGED lastNotified

\* builder.when(stateName, stateInitializer) for a new state: it is stored in
\* the builder's table, which _build copied from.
LateWhen(stateName, stateInitializer) ==
    /\ Running
    /\ stack = <<>>
    /\ stateName \notin DOMAIN builder.states
    /\ builder' = When(builder, stateName, stateInitializer)
    /\ UNCHANGED <<currentState, currentData, states, onStateChangedListeners,
                   toExecute, toExecuteOut, timers, stack, exc, callbacks, runLog,
                   nextFire, extensions, initializerCalls, described, script>>
    /\ UNCHANGED lastNotified

\* The handler results of the runs that exercise the sealed machine.
SealResults == {NullResult, Array(<<"A", "d1">>), Array(<<"B", "d2">>)}

\* A built machine, fired by the application only, whose builder is still used.
NextSeal ==
    \/ \E args \in ArgLists : stack = <<>> /\ FireCall(args)
    \/ Dispatch
    \/ \E result \in SealResults : HandlerReturn(result)
    \/ Validate
    \/ Notify
    \/ Swap
    \/ Schedule
    \/ Return
    \/ UserReturn
    \/ Uncaught
    \/ \E listener \in LateListeners : LateOnStateChanged(listener)
    \/ \E stateName \in StateNames, eventName \in LateEvents :
            LateOn(stateName, eventName, "hLate")
    \/ \E stateName \in LateStates : LateWhen(stateName, <<<<"e", "hCe">>>>)

SpecSeal == Init /\ [][NextSeal]_vars

\* The handler results of the runs that describe the machine: one of them
\* carries undefined as its data.
DescribeResults == SealResults \cup {Array(<<"B", Undefined>>)}

\* A built machine, fired by the application only, whose user code calls
\* execute and executeOut, and which is described at any time.
NextDescribe ==
    \/ \E args \in ArgLists : stack = <<>> /\ FireCall(args)
    \/ Dispatch
    \/ \E result \in DescribeResults : HandlerReturn(result)
    \/ Validate
    \/ Notify
    \/ Swap
    \/ Drain
    \/ Schedule
    \/ Return
    \/ Execute
    \/ ExecuteOut
    \/ UserReturn
    \/ Uncaught
    \/ \E n \in 1..MaxCallbacks : TimerRun(n)
    \/ \E stringify \in StringifyFlags : DescribeCall(stringify)

SpecDescribe == Init /\ [][NextDescribe]_vars

----------------------------------------------------------------------------
(* k.fsm.create(initializer), one step per call the initializer makes *)

MaxCalls == 3

\* The frame of the initializer, called by create with the new builder.
InitializerFrame == [kind |-> "initializer"]

InInitializer == stack = <<InitializerFrame>>

\* create has returned the machine.
Built == ~InInitializer

\* The arguments of the calls the initializer makes.
StartArgs == {<<"A", Null>>, <<UndeclaredState, "d0">>}
StateInitializers == {<<<<"e", "hAe">>>>, <<<<"f", "hAf">>>>}
AttachArgs == {<<<<"s", "a", "y">>, "v1">>, <<<<"s", "a", "y">>, "v2">>,
               <<<<"_", "x">>, "v1">>}

Attach(attr, value) == [op |-> "attach", name |-> attr, arg |-> value]

\* const builder = new FSMBuilder(); initializer(builder): the initializer is
\* running and no machine exists yet (its fields hold nothing).
InitBuild ==
    /\ currentState = Null
    /\ currentData = Null
    /\ states = EmptyObject
    /\ onStateChangedListeners = <<>>
    /\ toExecute = <<>>
    /\ toExecuteOut = <<>>
    /\ timers = {}
    /\ stack = <<InitializerFrame>>
    /\ exc = "none"
    /\ callbacks = <<>>
    /\ runLog = <<>>
    /\ nextFire = 0
    /\ extensions = EmptyObject
    /\ builder = NewFSMBuilder
    /\ initializerCalls = <<>>
    /\ described = <<>>
    /\ script = NoScript
    /\ lastNotified = EmptyObject

\* The initializer makes one more call on the builder.
InitializerCall(call) ==
    /\ InInitializer
    /\ Len(initializerCalls) < MaxCalls
    /\ builder' = BuilderCall(builder, call)
    /\ initializerCalls' = Append(initializerCalls, call)
    /\ UNCHANGED <<currentState, currentData, states, onStateChangedListeners,
                   toExecute, toExecuteOut, timers, stack, exc, callbacks, runLog,
                   nextFire, extensions, described, script>>
    /\ UNCHANGED lastNotified

InitializerStartWith(initialState, initialData) ==
    InitializerCall(Start(initialState, initialData))

InitializerWhen(stateName, stateInitializer) ==
    InitializerCall([op |-> "when", name |-> stateName, arg |-> stateInitializer])

InitializerOnStateChanged(listener) ==
    InitializerCall(Listen(listener))

InitializerAttach(attr, value) ==
    InitializerCall(Attach(attr, value))

\* The initializer returns and create returns builder._build().
CreateReturn ==
    /\ InInitializer
    /\ LET fsm == Build(builder) IN
        /\ currentState' = fsm.currentState
        /\ currentData' = fsm.currentData
        /\ states' = fsm.states
        /\ onStateChangedListeners' = fsm.onStateChangedListeners
        /\ toExecute' = fsm.toExecute
        /\ toExecuteOut' = fsm.toExecuteOut
        /\ extensions' = fsm.extensions
    /\ stack' = <<>>
    /\ UNCHANGED <<timers, exc, callbacks, runLog, nextFire, builder,
                   initializerCalls, described, script>>
    /\ UNCHANGED lastNotified

\* The fire calls made on the machines built here, with extra arguments, and
\* the results their handlers return.
BuildArgLists == {<<"e">>, <<"f">>, <<"toString">>, <<"e", "x">>, <<"f", "x", "y">>}
BuildResults == {Array(<<"B", "d2">>)}

\* create, then fire calls made by the application only.
NextBuild ==
    \/ \E start \in StartArgs : InitializerStartWith(start[1], start[2])
    \/ \E stateInitializer \in StateInitializers :
            InitializerWhen("A", stateInitializer)
    \/ InitializerOnStateChanged("l1")
    \/ \E attach \in AttachArgs : InitializerAttach(attach[1], attach[2])
    \/ CreateReturn
    \/ \E args \in BuildArgLists : stack = <<>> /\ FireCall(args)
    \/ Dispatch
    \/ \E result \in BuildResults : HandlerReturn(result)
    \/ Validate
    \/ Notify
    \/ Swap
    \/ Schedule
    \/ Return
    \/ UserReturn
    \/ Uncaught

SpecBuild == InitBuild /\ [][NextBuild]_vars

----------------------------------------------------------------------------
(* The drain of execute, with one callback more and without executeOut *)

DrainArgLists == {<<"e">>, <<"f">>}
DrainResults == {Array(<<"A", "d1">>), Array(<<"B", "d2">>)}

NextDrain ==
    \/ \E args \in DrainArgLists : FireCall(args)
    \/ Dispatch
    \/ \E result \in DrainResults : HandlerReturn(result)
    \/ Validate
    \/ Notify
    \/ Swap
    \/ Drain
    \/ Schedule
    \/ Return
    \/ ExecuteUpTo(MaxCallbacks + 1)
    \/ UserReturn
    \/ UserThrow
    \/ Propagate
    \/ Catch
    \/ Uncaught

SpecDrain == Init /\ [][NextDrain]_vars

----------------------------------------------------------------------------
(* Fire calls made by the application only, whose user code returns and hands
   callbacks to execute, the callbacks of the drain themselves included *)

NextTerm ==
    \/ \E args \in DrainArgLists : stack = <<>> /\ FireCall(args)
    \/ Dispatch
    \/ \E result \in DrainResults : HandlerReturn(result)
    \/ Validate
    \/ Notify
    \/ Swap
    \/ Drain
    \/ Schedule
    \/ Return
    \/ Execute
    \/ Reexecute
    \/ UserReturn
    \/ Uncaught

\* Every function called returns and every statement of fire is executed in
\* its turn: a step that can be taken is taken.
SpecTerm == Init /\ [][NextTerm]_vars /\ WF_vars(NextTerm)

----------------------------------------------------------------------------
(* The producer/consumer machine of the README *)

\* Variant of Elements: the argument is ignored.
ElementsIgnored(innerArgs) == 1

\* var elts = elements || 1: elements is the argument after data; a missing
\* argument and 0 both give 1.
Elements(innerArgs) ==
    IF Len(innerArgs) >= 2 /\ innerArgs[2] # 0 THEN innerArgs[2] ELSE 1

\* The handler of produce in state producer.
Produce(data, elts) ==
    IF data + elts <= 10
    THEN Array(<<"producer", data + elts>>)
    ELSE Array(<<"producer", data>>)

\* The handler of consume in state consumer.
Consume(data, elts) ==
    IF data - elts >= 0
    THEN Array(<<"consumer", data - elts>>)
    ELSE Array(<<"consumer", data>>)

\* The handlers of switch.
ToConsumer(data) == Array(<<"consumer", data>>)
ToProducer(data) == Array(<<"producer", data>>)

\* this.say(text), called when the store is full or empty: say has to be a
\* member of the machine.
Says(handler, data, elts) ==
    \/ handler = "produce" /\ data + elts > 10
    \/ handler = "consume" /\ data - elts < 0

HandlerResult(handler, innerArgs) ==
    CASE handler = "produce" -> Produce(innerArgs[1], Elements(innerArgs))
      [] handler = "consume" -> Consume(innerArgs[1], Elements(innerArgs))
      [] handler = "toConsumer" -> ToConsumer(innerArgs[1])
      [] handler = "toProducer" -> ToProducer(innerArgs[1])

ProducerConsumer ==
    << Start("producer", 0),
       [op |-> "when", name |-> "producer",
        arg |-> <<<<"produce", "produce">>, <<"switch", "toConsumer">>>>],
       [op |-> "when", name |-> "consumer",
        arg |-> <<<<"consume", "consume">>, <<"switch", "toProducer">>>>],
       Attach(<<"s", "a", "y">>, "say"),
       Listen("l1") >>

\* The fire calls of Step 10, in order.
Scenario ==
    << <<"produce">>, <<"produce", 2>>, <<"consume">>, <<"switch">>,
       <<"consume">>, <<"consume", 3>>, <<"switch">>, <<"produce", 10>> >>

InitPC ==
    LET fsm == Create(ProducerConsumer) IN
    /\ currentState = fsm.currentState
    /\ currentData = fsm.currentData
    /\ states = fsm.states
    /\ onStateChangedListeners = fsm.onStateChangedListeners
    /\ toExecute = fsm.toExecute
    /\ toExecuteOut = fsm.toExecuteOut
    /\ timers = {}
    /\ stack = <<>>
    /\ exc = "none"
    /\ callbacks = <<>>
    /\ runLog = <<>>
    /\ nextFire = 0
    /\ extensions = fsm.extensions
    /\ builder = RunInitializer(NewFSMBuilder, ProducerConsumer)
    /\ initializerCalls = ProducerConsumer
    /\ described = <<>>
    /\ script = [on |-> TRUE, k |-> 0]
    /\ lastNotified = EmptyObject

\* fsm.fire(args...), called by the application; the calls are not counted,
\* script tells whether they are the scenario's so far.
ScriptFire(args) ==
    /\ Running
    /\ stack = <<>>
    /\ stack' = <<FireFrame(args)>>
    /\ script' = IF script.on /\ script.k < Len(Scenario) /\ args = Scenario[script.k + 1]
                 THEN [on |-> TRUE, k |-> script.k + 1]
                 ELSE NoScript
    /\ UNCHANGED <<currentState, currentData, states, onStateChangedListeners,
                   toExecute, toExecuteOut, timers, exc, callbacks, runLog, nextFire,
                   extensions, builder, initializerCalls, described>>
    /\ UNCHANGED lastNotified

\* The handler on top of the stack runs to its return statement.
HandlerRun ==
    /\ Running
    /\ InUserCode
    /\ Top.kind = "handler"
    /\ IF /\ Says(Top.fn, Top.args[1], Elements(Top.args))
          /\ <<"s", "a", "y">> \notin DOMAIN extensions
       THEN /\ Throw("TypeError")
            /\ UNCHANGED <<currentState, currentData, states, onStateChangedListeners,
                           toExecute, toExecuteOut, timers, callbacks, runLog,
                           nextFire, extensions, builder, initializerCalls,
                           described, script, lastNotified>>
       ELSE HandlerReturn(HandlerResult(Top.fn, Top.args))

NextPC ==
    \/ \E k \in 1..Len(Scenario) : ScriptFire(Scenario[k])
    \/ Dispatch
    \/ HandlerRun
    \/ Validate
    \/ Notify
    \/ Swap
    \/ Schedule
    \/ Return
    \/ UserReturn
    \/ Uncaught

SpecPC == InitPC /\ [][NextPC]_vars

----------------------------------------------------------------------------

Next ==
    \/ \E args \in ArgLists : FireCall(args)
    \/ Dispatch
    \/ \E result \in Results : HandlerReturn(result)
    \/ Validate
    \/ Notify
    \/ Swap
    \/ Drain
    \/ Schedule
    \/ Return
    \/ Execute
    \/ ExecuteOut
    \/ UserReturn
    \/ UserThrow
    \/ Propagate
    \/ Catch
    \/ Uncaught
    \/ \E n \in 1..MaxCallbacks : TimerRun(n)

Spec == Init /\ [][Next]_vars

----------------------------------------------------------------------------
(* Properties *)

IsPair(result) == result.tag = "array" /\ Len(result.elems) = 2

\* The fire call on top of the stack fails with error: it is left, with every
\* fire call it is nested in up to the user code that made the call, and no
\* handler, listener or callback is entered.
FailsWith(error) ==
    /\ exc' = error
    /\ stack' = Unwind(Pop(stack))

StateAndDataUnchanged ==
    /\ currentState' = currentState
    /\ currentData' = currentData

\* C1: when a handler returns the pair [S, D], the fire call commits exactly
\* S and D as currentState and currentData and does not fail, whether or not
\* S is a declared state.
C1_CommitsReturnedPair ==
    [][ (Running /\ AtFire("validate") /\ IsPair(Top.result))
        => /\ currentState' = Top.result.elems[1]
           /\ currentData' = Top.result.elems[2]
           /\ exc' = "none"
           /\ Len(stack') = Len(stack) ]_vars

\* C1 witness: a fire call has just committed a pair naming the undeclared state.
C1_Witness ==
    /\ AtFire("notify")
    /\ Top.i = 0
    /\ Top.result = Array(<<UndeclaredState, "d3">>)
    /\ UndeclaredState \notin DOMAIN states
    /\ currentState = UndeclaredState
    /\ currentData = "d3"

\* C2: in a declared current state, fire(event) for any event name that has no
\* handler registered with on in that state (names of built-in object members
\* included) fails with UnknownEvent, invokes no handler, and leaves
\* currentState and currentData unchanged.
C2_UnknownEventRejected ==
    [][ (/\ Running
         /\ AtFire("dispatch")
         /\ currentState \in DOMAIN states
         /\ Len(Top.args) >= 1
         /\ Top.args[1] \notin DOMAIN states[currentState].handlers)
        => /\ FailsWith("UnknownEvent")
           /\ StateAndDataUnchanged ]_vars

\* C3 as claimed: whenever a handler returns anything other than a two-element
\* pair (null, undefined, fewer than two elements, more than two elements), fire
\* fails with MalformedTransition, currentState and currentData keep their
\* values from before the call, and no listener is notified.
C3_NonPairRejected ==
    [][ (Running /\ AtFire("validate") /\ Top.result \in Results /\ ~IsPair(Top.result))
        => /\ FailsWith("MalformedTransition")
           /\ currentState' = Top.oldState
           /\ currentData' = currentData ]_vars

\* C3 amended: when a handler returns null, undefined or a sequence of fewer
\* than two elements, fire fails with MalformedTransition without committing
\* that result: currentState and currentData keep the values they had when
\* the handler returned and this call notifies no listener.  A sequence of
\* more than two elements is accepted: its first two elements are committed.
C3_ShortResultRejected ==
    [][ (Running /\ AtFire("validate") /\ Top.result \in Results)
        => IF Top.result.tag # "array" \/ Len(Top.result.elems) < 2
           THEN /\ FailsWith("MalformedTransition")
                /\ StateAndDataUnchanged
           ELSE /\ exc' = "none"
                /\ Len(stack') = Len(stack)
                /\ currentState' = Top.result.elems[1]
                /\ currentData' = Top.result.elems[2] ]_vars

\* C3 witness: a nested fire call has failed with MalformedTransition after an
\* earlier commit, and the error is at the user code that made the call.
C3_Witness ==
    /\ exc = "MalformedTransition"
    /\ InUserCode
    /\ currentState = "B"

\* The listener calls a fire call that has committed result owes: every listener
\* once, in registration order, with (oldState, S), if S differs from oldState.
ExpectedNotifications(f) ==
    IF Index(f.result, 0) # f.oldState
    THEN [k \in 1..Len(onStateChangedListeners) |->
            <<onStateChangedListeners[k], f.oldState, Index(f.result, 0)>>]
    ELSE <<>>

\* The current state is one of the names the handlers return or the initial one
\* (no inherited member of the handler table has been fired as an event).
NamedState == currentState \in StateNames \cup {UndeclaredState, Null}

\* C4: a successful fire call whose handler returned [S, D] invokes every
\* listener exactly once, in registration order, with (oldState, S) if S
\* differs from oldState, and no listener if S equals oldState.  (Stated for
\* the runs in which only registered handlers have been invoked.)
C4_ListenersNotified ==
    \A k \in 1..Len(stack) :
        (stack[k].kind = "fire" /\ IsPair(stack[k].result) /\ NamedState) =>
            /\ stack[k].pc = "notify" =>
                  /\ Index(stack[k].result, 0) # stack[k].oldState
                  /\ stack[k].notified =
                        SubSeq(ExpectedNotifications(stack[k]), 1, stack[k].i)
            /\ stack[k].pc \in {"swap", "drain", "return"} =>
                  stack[k].notified = ExpectedNotifications(stack[k])

Range(seq) == {seq[k] : k \in 1..Len(seq)}

Count(seq, x) == Cardinality({k \in 1..Len(seq) : seq[k] = x})

\* The runs, in order, of the callbacks of the set S.
RunsOf(S) == SelectSeq(runLog, LAMBDA n : n \in S)

Increasing(seq) == \A j, k \in 1..Len(seq) : j < k => seq[j] < seq[k]

C7_RunsOutsideFire ==
    \A k \in 1..Len(stack) :
        (stack[k].kind \in {"callback", "timeout"}
            /\ callbacks[stack[k].cb].queue = "executeOut")
        => (k = 1 /\ stack[k].kind = "timeout")

\* C7 witness: a callback passed to executeOut during a fire call is running
\* and has issued a fire call of its own, the outermost one.
C7_Witness ==
    /\ Len(stack) = 2
    /\ stack[1].kind = "timeout"
    /\ callbacks[stack[1].cb] = [queue |-> "executeOut", inFire |-> TRUE]
    /\ stack[2].kind = "fire"

\* This step ends the outermost fire call in one of these ways: it returns, its
\* handler's result is rejected, or a listener or a deferred callback of a fire
\* call raises an error that nothing catches.
OutermostFireEnds ==
    /\ Running
    /\ stack # <<>>
    /\ stack[1].kind = "fire"
    /\ stack' = <<>>
    /\ \/ exc' \in {"none", "MalformedTransition"}
       \/ exc' = "UserError" /\ Top.kind \in {"listener", "callback"}

\* C8: every callback passed to executeOut during a fire call eventually runs,
\* exactly once, whatever the outcome of that call and without any further
\* fire call: when the call ends, the callback has run once or is a task of
\* the host.  (Stated for the first fire call made on the machine.)
C8_OutCallbacksRun ==
    [][ (OutermostFireEnds /\ nextFire = 1)
        => \A n \in 1..Len(callbacks) :
              (callbacks[n].queue = "executeOut" /\ callbacks[n].inFire)
                  => (Count(runLog', n) = 1 \/ n \in timers') ]_vars

\* C9 as claimed: between operations, currentState is a key of the state table.
C9_CurrentStateDeclared ==
    (stack = <<>> /\ exc = "none") => currentState \in DOMAIN states

\* C9 amended: currentState is a key of the state table as long as the initial
\* state was declared and every committed result named a declared state: it
\* stops being a key only when fire commits a handler result whose first
\* element is not a declared state (no validation), and is that element then.
C9_LeavesTableOnlyByCommit ==
    [][ (currentState \in DOMAIN states /\ currentState' \notin DOMAIN states)
        => /\ Running
           /\ AtFire("validate")
           /\ ~(Top.result.tag # "array" \/ Len(Top.result.elems) < 2)
           /\ currentState' = Top.result.elems[1]
           /\ currentData' = Top.result.elems[2] ]_vars

\* C9 witness: between operations, after a handler returned the undeclared
\* state, currentState is not a key of the state table.
C9_Witness ==
    /\ stack = <<>>
    /\ exc = "none"
    /\ nextFire > 0
    /\ currentState = UndeclaredState
    /\ currentData = "d3"
    /\ currentState \notin DOMAIN states

C11_FixedAfterBuild ==
    [][ /\ states' = states
        /\ onStateChangedListeners' = onStateChangedListeners ]_vars

\* The startWith calls the initializer made, in order.
StartWithCalls == SelectSeq(initializerCalls, LAMBDA call : call.op = "startWith")

\* C12: the machine returned by create has currentState and currentData equal
\* to the arguments of the last startWith call the initializer made (before or
\* after when, any number of calls), even if that state was never declared;
\* create does not fail.
C12_StartsWithLastStartWith ==
    (Built /\ nextFire = 0 /\ StartWithCalls # <<>>)
        => /\ currentState = StartWithCalls[Len(StartWithCalls)].name
           /\ currentData = StartWithCalls[Len(StartWithCalls)].arg
           /\ exc = "none"

\* C12 witness: create has returned a machine whose initializer called
\* startWith twice, the second time after when and with an undeclared state.
C12_Witness ==
    /\ Built
    /\ Len(initializerCalls) = 3
    /\ initializerCalls[1].op = "startWith"
    /\ initializerCalls[1].name = "A"
    /\ initializerCalls[2].op = "when"
    /\ initializerCalls[3].op = "startWith"
    /\ initializerCalls[3].name = UndeclaredState
    /\ currentState = UndeclaredState
    /\ currentData = "d0"
    /\ UndeclaredState \notin DOMAIN states

\* The callback n is in the queue of execute.
Pending(n) == n \in Range(toExecute)

\* A fire call that started after the call of frame j has taken the callback n
\* out of the queue and is draining.
TakenLater(j, n) ==
    \E k \in (j + 1)..Len(stack) :
        /\ stack[k].kind = "fire"
        /\ stack[k].pc = "drain"
        /\ n \in Range(stack[k].toExecute)

C14_NoEventNameRejected ==
    [][ (/\ Running
         /\ AtFire("dispatch")
         /\ Top.args = <<>>
         /\ currentState \in DOMAIN states)
        => /\ FailsWith("InvalidInvocation")
           /\ StateAndDataUnchanged ]_vars

\* C14 witness: a fire call without arguments, made by a listener after a
\* transition to B, has failed with InvalidInvocation.
C14_Witness ==
    /\ exc = "InvalidInvocation"
    /\ InUserCode
    /\ Top.kind = "listener"
    /\ currentState = "B"
    /\ currentData = "d2"

\* A listener or a deferred callback of a fire call is running and an error
\* leaves it in this step: it raises one, or does not catch one raised by a
\* call it made.
ErrorLeavesListenerOrCallback ==
    /\ InUserCode
    /\ Top.kind \in {"listener", "callback"}
    /\ exc' # "none"
    /\ stack' # stack

\* C15: if a listener or a synchronous-deferred callback raises an error
\* during a fire call, the machine does not catch it: the fire call is left at
\* once, and every fire call it is nested in, up to the user code that called
\* fire (or out of the stack), so that no later listener and no later
\* callback of that fire call is invoked; the error is the one raised.
C15_ErrorAbortsFire ==
    [][ ErrorLeavesListenerOrCallback
        => /\ Len(stack') <= Len(stack) - 2
           /\ stack' = SubSeq(stack, 1, Len(stack'))
           /\ \A k \in (Len(stack') + 1)..(Len(stack) - 1) : stack[k].kind = "fire"
           /\ stack' # <<>> => stack'[Len(stack')].kind \in UserKinds
           /\ exc' = (IF Running THEN "UserError" ELSE exc)
           /\ runLog' = runLog ]_vars

\* C15 witness: the first of two callbacks of a drain has raised an error, the
\* fire call is gone and the second callback has not run.
C15_Witness ==
    /\ exc = "UserError"
    /\ stack = <<>>
    /\ Len(callbacks) = 2
    /\ callbacks[1].queue = "execute"
    /\ callbacks[2].queue = "execute"
    /\ runLog = <<1>>
    /\ toExecute = <<>>

\* The state and data the scenario announces after each of its fire calls.
Announced ==
    << <<"producer", 1>>, <<"producer", 3>>, <<"producer", 3>>, <<"consumer", 3>>,
       <<"consumer", 2>>, <<"consumer", 2>>, <<"producer", 2>>, <<"producer", 2>> >>

\* C16: on the producer/consumer machine started at (producer, 0), the calls
\* fire(produce), fire(produce, 2), fire(consume), fire(switch), fire(consume),
\* fire(consume, 3), fire(switch), fire(produce, 10) leave in turn
\* (producer, 1), (producer, 3), (producer, 3) after an UnknownEvent failure,
\* (consumer, 3), (consumer, 2), (consumer, 2), (producer, 2), (producer, 2);
\* only the third call fails.
C16_ScenarioOutcomes ==
    /\ [](  (script.on /\ script.k >= 1 /\ stack = <<>>)
            => /\ currentState = Announced[script.k][1]
               /\ currentData = Announced[script.k][2]
               /\ exc \in (IF script.k = 3 THEN {"UnknownEvent", "none"} ELSE {"none"}) )
    /\ [][ (script.on /\ script.k = 3 /\ AtFire("dispatch"))
            => (FailsWith("UnknownEvent") /\ StateAndDataUnchanged) ]_vars

\* C16 witness: the eight calls of the scenario have been made and the last
\* one has returned.
C16_Witness ==
    /\ script = [on |-> TRUE, k |-> 8]
    /\ stack = <<>>
    /\ currentState = "producer"
    /\ currentData = 2

\* C17: describe never changes the machine (currentState, currentData, both
\* deferred queues, the state table and the listeners are the same after the
\* call as before), and a second describe call with the same flag made right
\* after it returns an equal snapshot.
C17_DescribeIsPure ==
    [][ described' # described
        => /\ UNCHANGED <<currentState, currentData, toExecute, toExecuteOut, states,
                          onStateChangedListeners, timers, stack, exc, extensions>>
           /\ \E stringify \in StringifyFlags :
                 /\ described' = <<Describe(stringify)>>
                 /\ described' = <<Describe(stringify)'>> ]_vars

\* C17 witness: user code has described the machine while one callback is
\* pending in each deferred queue.
C17_Witness ==
    /\ described = <<Describe("false")>>
    /\ InUserCode
    /\ toExecute # <<>>
    /\ toExecuteOut # <<>>

\* The fire call on top of the stack is about to dispatch to a handler that
\* was registered for its event in the current state.
FindsHandler ==
    /\ Running
    /\ AtFire("dispatch")
    /\ HasState(currentState)
    /\ Len(Top.args) >= 1
    /\ Top.args[1] \in DOMAIN states[currentState].handlers

\* C18: a fire(eventName, a1, ..., an) that finds a handler invokes it exactly
\* once, with the argument list (currentData, a1, ..., an), currentData being
\* the data at the start of the call (null included), and with the machine
\* as its execution context.
C18_HandlerArguments ==
    [][ /\ FindsHandler
            => stack' = Append(SetTop(stack, [Top EXCEPT !.pc = "handler"]),
                               [kind |-> "handler",
                                fn |-> states[currentState].handlers[Top.args[1]],
                                cb |-> 0,
                                args |-> <<currentData>> \o Tail(Top.args),
                                this |-> TheFSM])
        /\ (Len(stack') = Len(stack) + 1 /\ stack'[Len(stack')].kind = "handler")
            => FindsHandler
        /\ (Len(stack') = Len(stack) + 1 /\ stack'[Len(stack')].kind = "fire")
            => (stack'[Len(stack')].pc = "dispatch" /\ currentData' = currentData)
        /\ \A k \in 1..Len(stack) :
              (k <= Len(stack') /\ stack[k].kind = "fire" /\ stack[k].pc # "dispatch")
                  => stack'[k].pc # "dispatch" ]_vars

\* C18 witness: a handler is running with null data and two extra arguments.
C18_Witness ==
    /\ Len(stack) = 2
    /\ Top.kind = "handler"
    /\ Top.fn = "hAf"
    /\ Top.args = <<Null, "x", "y">>
    /\ Top.this = TheFSM
    /\ stack[1].args = <<"f", "x", "y">>

\* The when calls the initializer made for the state name, in order.
WhenCalls(name) ==
    SelectSeq(initializerCalls, LAMBDA call : call.op = "when" /\ call.name = name)

\* The events a when call registered with on.
RegisteredBy(call) == {call.arg[k][1] : k \in 1..Len(call.arg)}

\* C19: when the initializer called when more than once for a state name, the
\* built state handles exactly the events registered by the last of these
\* calls: fire dispatches such an event to its handler, and fails with
\* UnknownEvent, leaving state and data unchanged, for every other event,
\* those registered only by an earlier call included.
C19_LastWhenWins ==
    [][ (/\ Running
         /\ AtFire("dispatch")
         /\ HasState(currentState)
         /\ Len(WhenCalls(currentState)) >= 2
         /\ Len(Top.args) >= 1)
        => LET last == WhenCalls(currentState)[Len(WhenCalls(currentState))] IN
           IF Top.args[1] \in RegisteredBy(last)
           THEN /\ exc' = "none"
                /\ Len(stack') = Len(stack) + 1
                /\ stack'[Len(stack')].kind = "handler"
                /\ \E k \in 1..Len(last.arg) :
                      last.arg[k] = <<Top.args[1], stack'[Len(stack')].fn>>
           ELSE /\ FailsWith("UnknownEvent")
                /\ StateAndDataUnchanged ]_vars

\* The members the initializer attached to the builder, in order.
AttachCalls == SelectSeq(initializerCalls, LAMBDA call : call.op = "attach")

\* The names of the attached members that do not start with the private marker.
PublicAttached ==
    {AttachCalls[k].name : k \in {j \in 1..Len(AttachCalls) : AttachCalls[j].name[1] # "_"}}

\* The value the initializer gave last to the member attr.
LastAttached(attr) ==
    LET of == SelectSeq(AttachCalls, LAMBDA call : call.name = attr)
    IN of[Len(of)].arg

\* C20: the built machine carries exactly the members the initializer attached
\* to the builder under names that do not start with '_', with the values
\* they had at build time, and none of the builder's own operations
\* (startWith, when, onStateChanged, _build) nor of its private members.
C20_ExactlyPublicMembers ==
    Built =>
        /\ DOMAIN extensions = PublicAttached
        /\ \A attr \in PublicAttached : extensions[attr] = LastAttached(attr)
        /\ DOMAIN extensions \cap (BuilderMethods \cup PrivateFields) = {}

\* C20 witness: a machine has been built after the initializer attached say,
\* then a member with a private name, then say again with another value.
C20_Witness ==
    /\ Built
    /\ Len(AttachCalls) = 3
    /\ AttachCalls[1] = Attach(<<"s", "a", "y">>, "v1")
    /\ AttachCalls[2] = Attach(<<"_", "x">>, "v1")
    /\ DOMAIN extensions = {<<"s", "a", "y">>}
    /\ extensions[<<"s", "a", "y">>] = "v2"

\* What a reader gets back from the value describe returned: the object itself,
\* or the object the text parses to.
Snapshot(value) == IF "text" \in DOMAIN value THEN value.text ELSE value.frozen

\* object[key]: undefined when the object has no such member.
Member(object, key) == IF key \in DOMAIN object THEN object[key] ELSE Undefined

\* The listeners the initializer registered, in order.
ListenCalls == SelectSeq(initializerCalls, LAMBDA call : call.op = "onStateChanged")

\* The state names the initializer declared with when.
Declared == {initializerCalls[k].name :
                k \in {j \in 1..Len(initializerCalls) : initializerCalls[j].op = "when"}}

\* C21: the snapshot returned by describe reports the machine's current state
\* and current data, a listener count equal to the number of onStateChanged
\* registrations, and one entry per declared state giving its name and exactly
\* the set of event names registered for it with on.
C21_DescribeReports ==
    [][ described' # described
        => LET snapshot == Snapshot(described'[1]) IN
           /\ Member(snapshot, "state") = currentState
           /\ Member(snapshot, "data") = currentData
           /\ Member(snapshot, "listeners") = Len(ListenCalls)
           /\ {entry.name : entry \in Member(snapshot, "states")} = Declared
           /\ Cardinality(Member(snapshot, "states")) = Cardinality(Declared)
           /\ \A entry \in Member(snapshot, "states") :
                 entry.handlers =
                     RegisteredBy(WhenCalls(entry.name)[Len(WhenCalls(entry.name))]) ]_vars

\* C21 witness: the text describe returned for a machine in state B with
\* undefined data and two listeners.
C21_Witness ==
    /\ described = <<Describe("undefined")>>
    /\ currentState = "B"
    /\ currentData = Undefined
    /\ Len(onStateChangedListeners) = 2
    /\ "data" \notin DOMAIN described[1].text
    /\ stack = <<>>

\* The pair the machine was created with: the arguments of the last startWith,
\* null and null without one.
InitialPair ==
    IF StartWithCalls = <<>>
    THEN <<Null, Null>>
    ELSE <<StartWithCalls[Len(StartWithCalls)].name, StartWithCalls[Len(StartWithCalls)].arg>>

\* The pairs a handler invocation can return: the first two elements of a
\* result that is accepted (of the text an inherited toString returns, too).
ReturnedPairs ==
    {<<Index(r, 0), Index(r, 1)>> : r \in {x \in Results \cup {ObjectToString} : ~Malformed(x)}}

\* C22: wherever user code runs and between operations, the pair
\* (currentState, currentData) is the initial pair or the pair returned by one
\* single handler invocation: a step that changes either of the two replaces
\* both by the two elements of the result a handler has just returned.
C22_PairReplacedTogether ==
    /\ [](<<currentState, currentData>> \in {InitialPair} \cup ReturnedPairs)
    /\ [][ (currentState' # currentState \/ currentData' # currentData)
            => /\ AtFire("validate")
               /\ ~Malformed(Top.result)
               /\ currentState' = Index(Top.result, 0)
               /\ currentData' = Index(Top.result, 1) ]_vars

\* C22 witness: a listener runs after the fire call it issued from inside a
\* listener committed (A, d1) over the (B, d2) of the outer call.
C22_Witness ==
    /\ Len(stack) = 4
    /\ stack[2].kind = "listener"
    /\ Top.kind = "listener"
    /\ stack[1].result = Array(<<"B", "d2">>)
    /\ stack[3].result = Array(<<"A", "d1">>)
    /\ currentState = "A"
    /\ currentData = "d1"

\* C23: a fire call whose handler, listeners and deferred callbacks each
\* return and do not call fire themselves always ends, even when a callback of
\* the drain hands itself (or other callbacks) to execute during the drain;
\* the callbacks its drain runs are those of the queue at the moment it was
\* swapped out, as many as its length.
C23_FireTerminates ==
    /\ [](stack # <<>> => <>(stack = <<>>))
    /\ [][ (Running /\ AtFire("swap"))
            => (stack'[Len(stack')].toExecute = toExecute /\ toExecute' = <<>>) ]_vars
    /\ [](\A k \in 1..Len(stack) :
            stack[k].kind = "fire" =>
                /\ stack[k].pc = "drain" =>
                      /\ stack[k].i <= Len(stack[k].toExecute)
                      /\ stack[k].ran = SubSeq(stack[k].toExecute, 1, stack[k].i)
                /\ stack[k].pc = "return" =>
                      /\ stack[k].ran = stack[k].toExecute
                      /\ Len(stack[k].ran) = stack[k].c)

\* C23 witness: a fire call returns after a drain of one callback, which was
\* run by an earlier drain too and has handed itself to execute again.
C23_Witness ==
    /\ AtFire("return")
    /\ Top.ran = <<1>>
    /\ runLog = <<1, 1>>
    /\ toExecute = <<1>>
    /\ Top.registeredInDrain = <<1>>

\* C24: execute(cb) and executeOut(cb) only append cb to the end of their own
\* queue: neither calls cb at the time of the call (no function is entered or
\* left, no fire call moves on), and neither changes currentState,
\* currentData, the other queue, the state table or the listener list.
C24_OnlyAppends ==
    [][ callbacks' # callbacks
        => LET n == Len(callbacks) + 1 IN
           /\ Len(callbacks') = n
           /\ SubSeq(callbacks', 1, n - 1) = callbacks
           /\ IF callbacks'[n].queue = "execute"
              THEN toExecute' = Append(toExecute, n) /\ toExecuteOut' = toExecuteOut
              ELSE toExecuteOut' = Append(toExecuteOut, n) /\ toExecute' = toExecute
           /\ UNCHANGED <<currentState, currentData, states, onStateChangedListeners,
                          timers, runLog, exc, nextFire>>
           /\ Len(stack') = Len(stack)
           /\ \A k \in 1..Len(stack) :
                 /\ stack'[k].kind = stack[k].kind
                 /\ stack[k].kind = "fire" =>
                       /\ stack'[k].pc = stack[k].pc
                       /\ stack'[k].i = stack[k].i
                       /\ stack'[k].toExecute = stack[k].toExecute
                       /\ stack'[k].toExecuteOut = stack[k].toExecuteOut ]_vars

\* C24 witness: a handler has called executeOut, then execute; each queue holds
\* its callback and none has run.
C24_Witness ==
    /\ InUserCode
    /\ Top.kind = "handler"
    /\ toExecuteOut = <<1>>
    /\ toExecute = <<2>>
    /\ runLog = <<>>
    /\ timers = {}

\* The fire call of frame k is over after this step: it has returned or an
\* error has left it.
FireOver(k) == stack[k].kind = "fire" /\ Len(stack') < k

\* The callbacks in the two queues of the machine.
Queued == Range(toExecute) \cup Range(toExecuteOut)

\* C25: every call to fire clears the deferred queues: when a fire call is
\* over, whether it returns or raises an error, no callback handed to the
\* machine before that call's drain step (before the call, if it never got
\* there) is left in the queue of execute or in that of executeOut.
C25_FireClearsQueues ==
    [][ \A k \in 1..Len(stack) :
            FireOver(k) => \A n \in Queued' : n > stack[k].known ]_vars

\* The pair the fire call of frame f has committed.
Committed(f) == <<Index(f.result, 0), Index(f.result, 1)>>

\* C26 as claimed: if a fire call raises any error at all (InvalidInvocation,
\* UnknownEvent, UnknownState, MalformedTransition, or an error raised by a
\* handler, a listener or a deferred callback), currentState and currentData
\* equal the values they had before that call.
C26_ErrorRestoresState ==
    [][ \A k \in 1..Len(stack) :
            (FireOver(k) /\ exc' # "none")
                => <<currentState', currentData'>> = stack[k].entry ]_vars

\* C26 amended: a fire call that raises an error changes nothing while it is
\* left and restores nothing.  When the error is InvalidInvocation,
\* UnknownEvent or UnknownState, state and data are those from before the
\* call; when it is MalformedTransition or an error of the handler, the call
\* has committed nothing and they are those from before the call unless a fire
\* call issued by the handler has committed; when it is an error of a
\* listener or of a deferred callback, the call's own result stays committed
\* (unless a fire call nested in it has committed since).
C26_ErrorKeepsWhatWasCommitted ==
    [][ \A k \in 1..Len(stack) :
            (FireOver(k) /\ exc' # "none")
                => /\ StateAndDataUnchanged
                   /\ stack[k].pc \in {"dispatch", "handler", "validate", "notify", "drain"}
                   /\ stack[k].pc = "dispatch"
                         => <<currentState', currentData'>> = stack[k].entry
                   /\ (stack[k].pc \in {"handler", "validate"} /\ ~stack[k].inner)
                         => <<currentState', currentData'>> = stack[k].entry
                   /\ (stack[k].pc \in {"notify", "drain"} /\ ~stack[k].inner)
                         => <<currentState', currentData'>> = Committed(stack[k]) ]_vars

\* C26 witness: the only fire call made has been left by the error of a
\* listener, after it committed (B, d2) over (A, d0).
C26_Witness ==
    /\ exc = "UserError"
    /\ stack = <<>>
    /\ nextFire = 1
    /\ callbacks = <<>>
    /\ InitialPair = <<"A", "d0">>
    /\ currentState = "B"
    /\ currentData = "d2"

\* The errors fire and State.fire raise themselves.
FireErrors == {"InvalidInvocation", "UnknownEvent", "UnknownState", "MalformedTransition"}

\* C27: a fire call that fails with InvalidInvocation, UnknownEvent,
\* UnknownState or MalformedTransition leaves both deferred queues exactly as
\* they were before the call: it neither runs nor drops a pending callback,
\* and it leaves behind no callback that a later fire would run (none handed
\* to execute by the handler whose result was rejected).
C27_FailedFireLeavesQueues ==
    [][ (Running /\ stack # <<>> /\ Top.kind = "fire" /\ exc' \in FireErrors)
        => /\ <<toExecute', toExecuteOut'>> = Top.queues
           /\ runLog' = runLog
           /\ timers' = timers ]_vars

\* C28: no committed transition is overwritten by a reentrant fire: at the
\* moment a fire call commits its handler's result, currentState and
\* currentData still equal the values they had when that handler was invoked,
\* so that the result of a fire call issued by the handler is never lost.
C28_CommitOverEntryValues ==
    [][ (Running /\ AtFire("validate") /\ ~Malformed(Top.result))
        => <<currentState, currentData>> = Top.entry ]_vars

\* The newState of the last notification the listener received, the initial
\* state if it has received none.
LastKnown(listener) ==
    IF listener \in DOMAIN lastNotified THEN lastNotified[listener] ELSE InitialPair[1]

\* C29: for every listener and any sequence of fire calls (reentrant ones
\* included), the notifications it receives form a chain in commit order: the
\* first has oldState equal to the initial state, and each later one has
\* oldState equal to the newState of the notification it received just before.
C29_NotificationsChain ==
    [][ (Running /\ AtFire("notify") /\ Top.i < Top.c)
        => Top.oldState = LastKnown(onStateChangedListeners[Top.i + 1]) ]_vars

\* C30: whenever an outermost fire call returns normally, currentState equals
\* the newState of the last notification delivered to each registered
\* listener, or the initial state if that listener was never notified.
C30_NoUnreportedChange ==
    (/\ Running
     /\ AtFire("return")
     /\ \A k \in 1..(Len(stack) - 1) : stack[k].kind # "fire")
        => \A k \in 1..Len(onStateChangedListeners) :
              currentState = LastKnown(onStateChangedListeners[k])

\* The callbacks a fire call in progress has moved out of the queues and has
\* neither called nor handed to setTimeout yet.
HeldBy(f) ==
    IF f.kind = "fire" /\ f.pc = "drain"
    THEN {f.toExecute[j] : j \in (f.i + 1)..Len(f.toExecute)} \cup Range(f.toExecuteOut)
    ELSE {}

\* C31: no callback handed to execute or executeOut is ever dropped: in every
\* reachable state, each callback that was registered has already run, or is
\* still pending in a deferred queue (or in the hands of the fire call that
\* is draining it) or in the host task queue.
C31_NoCallbackDropped ==
    \A n \in 1..Len(callbacks) :
        \/ Count(runLog, n) >= 1
        \/ n \in Queued
        \/ n \in timers
        \/ \E k \in 1..Len(stack) : n \in HeldBy(stack[k])

====
